---- MODULE Spec2Model ----
(***************************************************************************)
(* A model of the ingestion pipeline, the polite fetcher and the analysis  *)
(* workflow with its quality gate, translated from the Python sources.     *)
(*                                                                         *)
(* Three specifications share the module's variables; each one lets its    *)
(* own subsystem run and keeps the others in their constructed state:      *)
(*   IngestSpec   document ingestion against the document store            *)
(*   FetchSpec    BaseLegalScraper.fetch_with_retry and _rate_limit        *)
(*   AnalyzeSpec  AgentOrchestrator.analyze_document, the quality gate and *)
(*                the multi-agent endpoint                                 *)
(***************************************************************************)
EXTENDS Integers, Sequences, FiniteSets, TLC

VARIABLES
    \* ---- document store and ingestion tasks
    documents,      \* rows of the documents table
    next_id,        \* next document_id the store hands out
    tpc,            \* task -> position in its ingestion function
    tkind,          \* task -> which ingestion path runs it
    turl,           \* task -> the candidate's url
    tcontent,       \* task -> bytes the fetch returned (or NoContent)
    thash,          \* task -> content_hash the path computed
    tresult,        \* task -> what the path handed back
    tbefore,        \* task -> tasks that had finished when it started
    tconflict,      \* task -> its commit hit the unique index
    tlookup,        \* task -> what its lookup by content hash found
    \* ---- fetcher
    now,            \* time.time()
    last_request_time, \* scraper instance -> last_request_time
    failed_urls,    \* scraper instance -> failed_urls
    cpc,            \* call -> position in fetch_with_retry
    cscraper,       \* call -> scraper instance it runs on
    curl,           \* call -> url
    attempt,        \* call -> loop variable of the retry loop
    wake,           \* call -> time its asyncio.sleep ends
    cresult,        \* call -> return value
    requests,       \* call -> number of session.get issued
    last_delay,     \* call -> the wait after its latest failed attempt
    sent,           \* start times of the last two requests sent to the origin
    \* ---- analysis
    apc,            \* position of the endpoint handler
    research_mode,  \* mode a premium-research request named, or "none"
    workflow_type,  \* requested workflow
    stage_idx,      \* index into agent_sequence
    agent_analyses, \* sequence of <<agent name, result>> in insertion order
    previous_results, \* sequence of <<agent name, result>> in insertion order
    seen_context,   \* agent name -> previous_analyses it was handed
    invoked,        \* sequence of agent names in the order invoked
    verdict,        \* (passes_threshold, quality_score, issues) of the gate
    summaries,      \* rows of the summaries table
    response,       \* what the endpoint answered
    \* ---- batch run of one ingestion path
    run_path,       \* "processor" or "service"
    run_pc,         \* position of the batch function
    batch,          \* candidate -> url, in the order of the list
    bpc,            \* candidate -> position of its pipeline
    bresult,        \* candidate -> its outcome
    results,        \* the results list of the batch function
    counts,         \* success_count, duplicate_count, error_count
    \* ---- the content hash of two texts
    t1, t2,         \* the texts of two documents
    e1, e2,         \* the byte encoding each arrives in
    hpath,          \* the code path that hashed them
    h1, h2,         \* their content hashes
    \* ---- the ingestion script
    main_pc,        \* position of main()
    phase_idx,      \* index of the next entry of ingestors_to_run
    phase_log,      \* how each phase that ran has ended
    \* ---- consolidation of the agents' insights
    cons_pc,        \* "idle", "start" or "done"
    stage_insights, \* per stage, in the order of agent_analyses: its lists
    consolidated,   \* key_legal_issues and compliance_requirements
    \* ---- an ingestion run that is interrupted
    python,         \* how the interpreter delivers SIGINT to the run
    sigint,         \* the signal has been raised
    must_cancel,    \* the main task is marked; CancelledError is pending
    ppc,            \* position of the candidate's pipeline
    pdoc,           \* index of the candidate in the documents list
    pattempt        \* loop variable of the retry loop

ingVars == <<documents, next_id, tpc, tkind, turl, tcontent, thash, tresult,
             tbefore, tconflict, tlookup>>
fetchVars == <<now, last_request_time, failed_urls, cpc, cscraper, curl,
               attempt, wake, cresult, requests, last_delay, sent>>
anaVars == <<apc, research_mode, workflow_type, stage_idx, agent_analyses, previous_results,
             seen_context, invoked, verdict, summaries, response>>
batchVars == <<run_path, run_pc, batch, bpc, bresult, results, counts>>
hashVars == <<t1, t2, e1, e2, hpath, h1, h2>>
runVars == <<main_pc, phase_idx, phase_log>>
consVars == <<cons_pc, stage_insights, consolidated>>
cancelVars == <<python, sigint, must_cancel, ppc, pdoc, pattempt>>
lateVars == <<consVars, cancelVars>>
extraVars == <<batchVars, hashVars, runVars, lateVars>>
vars == <<ingVars, fetchVars, anaVars, extraVars>>

(***************************************************************************)
(* Bounds of the model.                                                    *)
(***************************************************************************)
NTasks == 2
NCalls == 2
NCandidates == 3
TextLen == 3
ListLen == 2

Tasks == 1..NTasks

(***************************************************************************)
(* Documents.  A url serves a PDF (its bytes); the parser extracts and     *)
(* normalizes its text.  u1 and u2 serve the same bytes; pdfShort has text *)
(* shorter than the minimum; u4 is not found (404) and the PDF at u5 has   *)
(* no text at all.                                                         *)
(***************************************************************************)
NoContent == "NoContent"
NoId == "NoId"
NoHash == <<"nohash">>

Urls == {"u1.pdf", "u2.pdf", "u3.pdf"}

\* what the origin serves at each url
Served(url) ==
    CASE url = "u1.pdf" -> "pdfA"
      [] url = "u2.pdf" -> "pdfA"
      [] url = "u4.pdf" -> NoContent
      [] url = "u5.pdf" -> "pdfBlank"
      [] OTHER -> "pdfShort"

\* DocumentParser.extract_text_from_pdf: the normalized text of the bytes
ExtractText(bytes) ==
    CASE bytes = "pdfA" -> "textA"
      [] bytes = "pdfBlank" -> ""
      [] OTHER -> "short"

\* DocumentProcessor: not extracted_text or len(extracted_text) < 100
InsufficientText(text) == text = "" \/ text = "short"

\* IngestionService: not raw_text or not raw_text.strip()
BlankText(text) == text = ""

\* hashlib.sha256(x).hexdigest(): distinct inputs give distinct digests
Sha256(x) == <<"sha256", x>>

\* DocumentProcessor hashes the downloaded bytes
ProcessorHash(bytes) == Sha256(bytes)

\* extract_text_from_pdf hashes the normalized text
ParserHash(bytes) == Sha256(ExtractText(bytes))


(***************************************************************************)
(* Document store (table documents).                                       *)
(***************************************************************************)
\* db.query(Document).filter(Document.content_hash == h).first()
FindByHash(h) == {d \in documents : d.content_hash = h}

\* a documents table whose content_hash column has no unique index
NoUniqueIndex(h) == FALSE

\* content_hash = Column(String, unique=True, index=True)
UniqueViolation(h) == FindByHash(h) # {}

\* a path that stores without querying the store first
NoLookup(h) == "none"

\* existing_doc = db.query(Document).filter(...).first(); if existing_doc:
existing_doc(h) == IF FindByHash(h) # {} THEN "found" ELSE "absent"

\* str(document.document_id)
DocumentId(n) == ToString(n)

NewDocument(u, h, text) ==
    [document_id |-> DocumentId(next_id), content_hash |-> h, url |-> u, raw_text |-> text]

Result(status, id, err) == [status |-> status, document_id |-> id, error |-> err]
NoResult == Result("none", NoId, "")

\* the id of the row a lookup by hash returned
ExistingId(h) == (CHOOSE d \in FindByHash(h) : TRUE).document_id

\* db.add(document); db.commit(): the row is inserted unless the unique
\* index on content_hash rejects it (IntegrityError)
Commit(t, onConflict) ==
    IF UniqueViolation(thash[t])
    THEN /\ tresult' = [tresult EXCEPT ![t] = onConflict]
         /\ tconflict' = [tconflict EXCEPT ![t] = TRUE]
         /\ UNCHANGED <<documents, next_id>>
    ELSE /\ documents' = documents \cup
                {NewDocument(turl[t], thash[t], ExtractText(tcontent[t]))}
         /\ next_id' = next_id + 1
         /\ tresult' = [tresult EXCEPT ![t] = Result("success", DocumentId(next_id), "")]
         /\ UNCHANGED tconflict

\* tasks of one kind that are between their lookup and their commit
InSyncSection(kind) == {o \in Tasks : tkind[o] = kind /\ tpc[o] = "insert"}

Finish(t, r) ==
    /\ tpc' = [tpc EXCEPT ![t] = "done"]
    /\ tresult' = [tresult EXCEPT ![t] = r]

(***************************************************************************)
(* A candidate is handed to one of the three ingestion paths.              *)
(*   processor  DocumentProcessor.process_scraped_documents: a for loop,   *)
(*              one candidate at a time                                    *)
(*   service    IngestionService._process_scraped_documents: one coroutine *)
(*              per candidate under asyncio.gather                         *)
(*   celery     the fetch_and_store task, one worker per task              *)
(* Coroutines of one event loop interleave only at an await; the store is  *)
(* shared by all processes, so another process's commit can fall between a *)
(* path's lookup and its own commit.                                       *)
(***************************************************************************)
Kinds == {"processor", "service", "celery"}

StartTask(t, kind, u) ==
    /\ tpc[t] = "new"
    \* candidates are taken in the order of the list
    /\ \A o \in Tasks : o < t => tpc[o] # "new"
    \* the for loop awaits one _process_single_document before the next
    /\ kind = "processor" =>
          \A o \in Tasks : tkind[o] = "processor" => tpc[o] = "done"
    /\ tpc' = [tpc EXCEPT ![t] = "fetch"]
    /\ tkind' = [tkind EXCEPT ![t] = kind]
    /\ turl' = [turl EXCEPT ![t] = u]
    /\ tbefore' = [tbefore EXCEPT ![t] = {o \in Tasks : tpc[o] = "done"}]
    /\ UNCHANGED <<documents, next_id, tcontent, thash, tresult, tconflict, tlookup>>
    /\ UNCHANGED <<fetchVars, anaVars, extraVars>>

\* the path's fetch handed back nothing (fetch_with_retry returned None,
\* _download_pdf returned None, requests.get raised)
FetchFailed(t) ==
    /\ tpc[t] = "fetch"
    /\ Finish(t, Result("error", NoId, "fetch"))
    /\ UNCHANGED <<documents, next_id, tkind, turl, tcontent, thash, tbefore,
                   tconflict, tlookup>>
    /\ UNCHANGED <<fetchVars, anaVars, extraVars>>

\* DocumentProcessor._process_single_document, from the download's return to
\* the point of db.add
ProcessorCheck(t) ==
    /\ tpc[t] = "fetch" /\ tkind[t] = "processor"
    /\ InSyncSection("processor") = {}
    /\ LET bytes == Served(turl[t])
           h == ProcessorHash(bytes)
       IN /\ tcontent' = [tcontent EXCEPT ![t] = bytes]
          /\ thash' = [thash EXCEPT ![t] = h]
          /\ tlookup' = [tlookup EXCEPT ![t] = existing_doc(h)]
          /\ IF existing_doc(h) = "found"
             THEN Finish(t, Result("duplicate", ExistingId(h), ""))
             ELSE IF InsufficientText(ExtractText(bytes))
             THEN Finish(t, Result("error", NoId, "text"))
             ELSE /\ tpc' = [tpc EXCEPT ![t] = "insert"]
                  /\ UNCHANGED tresult
    /\ UNCHANGED <<documents, next_id, tkind, turl, tbefore, tconflict>>
    /\ UNCHANGED <<fetchVars, anaVars, extraVars>>

\* db.add; db.commit; except Exception: status error, "Database error"
ProcessorStore(t) ==
    /\ tpc[t] = "insert" /\ tkind[t] = "processor"
    /\ Commit(t, Result("error", NoId, "database"))
    /\ tpc' = [tpc EXCEPT ![t] = "done"]
    /\ UNCHANGED <<tkind, turl, tcontent, thash, tbefore, tlookup>>
    /\ UNCHANGED <<fetchVars, anaVars, extraVars>>

\* how _process_scraped_documents counts a coroutine's return value:
\* an id is a success, None a duplicate, an exception an error
ServiceOutcome(ret, id) ==
    CASE ret = "id" -> Result("success", id, "")
      [] ret = "None" -> Result("duplicate", NoId, "")
      [] OTHER -> Result("error", NoId, ret)

\* IngestionService._process_and_store_document, from the fetch's return to
\* the point of db.add
ServiceCheck(t) ==
    /\ tpc[t] = "fetch" /\ tkind[t] = "service"
    /\ InSyncSection("service") = {}
    /\ LET bytes == Served(turl[t])
           h == ParserHash(bytes)
       IN /\ tcontent' = [tcontent EXCEPT ![t] = bytes]
          /\ thash' = [thash EXCEPT ![t] = h]
          /\ IF BlankText(ExtractText(bytes))
             THEN Finish(t, ServiceOutcome("None", NoId)) /\ UNCHANGED tlookup
             ELSE /\ tlookup' = [tlookup EXCEPT ![t] = existing_doc(h)]
                  /\ IF existing_doc(h) = "found"
                     THEN Finish(t, ServiceOutcome("None", NoId))
                     ELSE /\ tpc' = [tpc EXCEPT ![t] = "insert"]
                          /\ UNCHANGED tresult
    /\ UNCHANGED <<documents, next_id, tkind, turl, tbefore, tconflict>>
    /\ UNCHANGED <<fetchVars, anaVars, extraVars>>

\* db.add; db.commit; except Exception: rollback and raise
ServiceStore(t) ==
    /\ tpc[t] = "insert" /\ tkind[t] = "service"
    /\ Commit(t, ServiceOutcome("database", NoId))
    /\ tpc' = [tpc EXCEPT ![t] = "done"]
    /\ UNCHANGED <<tkind, turl, tcontent, thash, tbefore, tlookup>>
    /\ UNCHANGED <<fetchVars, anaVars, extraVars>>

\* fetch_and_store, from the response to the point of db.add
CeleryCheck(t) ==
    /\ tpc[t] = "fetch" /\ tkind[t] = "celery"
    /\ LET bytes == Served(turl[t])
           h == ParserHash(bytes)
       IN /\ tcontent' = [tcontent EXCEPT ![t] = bytes]
          /\ thash' = [thash EXCEPT ![t] = h]
          /\ tlookup' = [tlookup EXCEPT ![t] = existing_doc(h)]
          /\ IF existing_doc(h) = "found"
             THEN Finish(t, Result("duplicate", ExistingId(h), ""))
             ELSE /\ tpc' = [tpc EXCEPT ![t] = "insert"]
                  /\ UNCHANGED tresult
    /\ UNCHANGED <<documents, next_id, tkind, turl, tbefore, tconflict>>
    /\ UNCHANGED <<fetchVars, anaVars, extraVars>>

\* db.add; db.commit; except Exception: the task fails
CeleryStore(t) ==
    /\ tpc[t] = "insert" /\ tkind[t] = "celery"
    /\ Commit(t, Result("error", NoId, "database"))
    /\ tpc' = [tpc EXCEPT ![t] = "done"]
    /\ UNCHANGED <<tkind, turl, tcontent, thash, tbefore, tlookup>>
    /\ UNCHANGED <<fetchVars, anaVars, extraVars>>

IngestInit ==
    /\ documents = {}
    /\ next_id = 1
    /\ tpc = [t \in Tasks |-> "new"]
    /\ tkind = [t \in Tasks |-> "none"]
    /\ turl = [t \in Tasks |-> "none"]
    /\ tcontent = [t \in Tasks |-> NoContent]
    /\ thash = [t \in Tasks |-> NoHash]
    /\ tresult = [t \in Tasks |-> NoResult]
    /\ tbefore = [t \in Tasks |-> {}]
    /\ tconflict = [t \in Tasks |-> FALSE]
    /\ tlookup = [t \in Tasks |-> "none"]

IngestNext ==
    \E t \in Tasks :
        \/ \E kind \in Kinds, u \in Urls : StartTask(t, kind, u)
        \/ FetchFailed(t)
        \/ ProcessorCheck(t)
        \/ ProcessorStore(t)
        \/ ServiceCheck(t)
        \/ ServiceStore(t)
        \/ CeleryCheck(t)
        \/ CeleryStore(t)

(***************************************************************************)
(* BaseLegalScraper: _rate_limit and fetch_with_retry.                     *)
(*                                                                         *)
(* Time is counted in seconds.  A coroutine runs without interruption up   *)
(* to its next await (asyncio.sleep, the request), so the steps below are  *)
(* the stretches between awaits.  Scraper instance 0 is the one an         *)
(* IngestionService shares among its gathered coroutines; instance c > 0   *)
(* is the one DocumentProcessor._download_pdf constructs for call c.       *)
(***************************************************************************)
rate_limit == 1
max_retries == 3

Calls == 1..NCalls
Scrapers == {0} \cup Calls
SharedScraper == 0

\* urls robots.txt disallows (can_fetch_url is False)
Disallowed == {"u3.pdf"}
can_fetch_url(url) == url \notin Disallowed

\* values a 429 response's Retry-After header takes
RetryAfterValues == {3}

\* what one session.get can end in
Responses == {"200", "429", "429_bad_header", "403", "404", "500",
              "timeout", "client_error"}

\* 2 ** attempt
Pow2(n) == IF n = 0 THEN 1 ELSE IF n = 1 THEN 2 ELSE IF n = 2 THEN 4 ELSE 8

\* a loop that runs once more: for attempt in range(max_retries + 1)
OneMoreAttempt(a) == a <= max_retries

\* for attempt in range(max_retries)
LoopContinues(a) == a < max_retries

\* a handler for timeouts only, without the except Exception clause
OnlyTimeoutCaught(exc) == exc = "timeout"

\* except asyncio.TimeoutError / except Exception around the request
Caught(exc) == exc \in {"timeout", "client_error", "value_error"}

Delay(why, secs) == [why |-> why, secs |-> secs]
NoDelay == Delay("no failure yet", 0)

\* the start times of the last two requests, after one more starts now
Window(times) == IF times = <<>> THEN <<now>> ELSE <<times[Len(times)], now>>

\* session.get(url) is issued now
SendRequest(c) ==
    /\ sent' = Window(sent)
    /\ requests' = [requests EXCEPT ![c] = @ + 1]
    /\ cpc' = [cpc EXCEPT ![c] = "waiting"]

\* return value
Return(c, v) ==
    /\ cpc' = [cpc EXCEPT ![c] = "done"]
    /\ cresult' = [cresult EXCEPT ![c] = v]

\* a loop that gives up without recording the url in failed_urls
GiveUpUnrecorded(c) ==
    /\ attempt' = [attempt EXCEPT ![c] = @ + 1]
    /\ IF LoopContinues(attempt[c] + 1)
       THEN /\ SendRequest(c)
            /\ UNCHANGED <<cresult, failed_urls>>
       ELSE /\ Return(c, "None")
            /\ UNCHANGED <<failed_urls, sent, requests>>

\* the loop's next iteration, or the code after the loop
NextIteration(c) ==
    /\ attempt' = [attempt EXCEPT ![c] = @ + 1]
    /\ IF LoopContinues(attempt[c] + 1)
       THEN /\ SendRequest(c)
            /\ UNCHANGED <<cresult, failed_urls>>
       ELSE /\ failed_urls' = [failed_urls EXCEPT
                                  ![cscraper[c]] = @ \cup {curl[c]}]
            /\ Return(c, "None")
            /\ UNCHANGED <<sent, requests>>

\* A caller starts fetch_with_retry(url) on a scraper instance; the coroutine
\* runs up to its first await.
StartCall(c, own, u) ==
    /\ cpc[c] = "new"
    /\ \A o \in Calls : o < c => cpc[o] # "new"
    \* DocumentProcessor downloads one document at a time
    /\ own => \A o \in Calls : cpc[o] \in {"new", "done", "raised"}
    /\ LET s == IF own THEN c ELSE SharedScraper
           time_since_last == now - last_request_time[s]
       IN /\ cscraper' = [cscraper EXCEPT ![c] = s]
          /\ curl' = [curl EXCEPT ![c] = u]
          /\ IF u \in failed_urls[s] \/ ~can_fetch_url(u)
             THEN /\ Return(c, "None")
                  /\ UNCHANGED <<last_request_time, wake, sent, requests>>
             ELSE IF time_since_last < rate_limit
             THEN /\ cpc' = [cpc EXCEPT ![c] = "rate_limit_sleep"]
                  /\ wake' = [wake EXCEPT
                                ![c] = now + (rate_limit - time_since_last)]
                  /\ UNCHANGED <<last_request_time, cresult, sent, requests>>
             ELSE /\ last_request_time' = [last_request_time EXCEPT ![s] = now]
                  /\ SendRequest(c)
                  /\ UNCHANGED <<wake, cresult>>
    /\ UNCHANGED <<now, failed_urls, attempt, last_delay>>
    /\ UNCHANGED <<ingVars, anaVars, extraVars>>

\* _rate_limit after its sleep, and the first request
RateLimitWake(c) ==
    /\ cpc[c] = "rate_limit_sleep"
    /\ now >= wake[c]
    /\ last_request_time' = [last_request_time EXCEPT ![cscraper[c]] = now]
    /\ wake' = [wake EXCEPT ![c] = 0]
    /\ SendRequest(c)
    /\ UNCHANGED <<now, failed_urls, cscraper, curl, attempt, cresult,
                   last_delay>>
    /\ UNCHANGED <<ingVars, anaVars, extraVars>>

\* asyncio.sleep(secs) after a failed attempt
Sleep(c, why, secs) ==
    /\ cpc' = [cpc EXCEPT ![c] = "sleep"]
    /\ wake' = [wake EXCEPT ![c] = now + secs]
    /\ last_delay' = [last_delay EXCEPT ![c] = Delay(why, secs)]
    /\ UNCHANGED <<attempt, cresult, failed_urls, sent, requests>>

\* an exception raised inside the try block
Except(c, exc) ==
    IF Caught(exc)
    THEN Sleep(c, "backoff", Pow2(attempt[c]))
    ELSE /\ cpc' = [cpc EXCEPT ![c] = "raised"]
         /\ UNCHANGED <<wake, last_delay, attempt, cresult, failed_urls,
                        sent, requests>>

\* the request of the current attempt ends
Respond(c, r) ==
    /\ cpc[c] = "waiting"
    /\ CASE r = "200" ->
             /\ Return(c, "content")
             /\ UNCHANGED <<wake, last_delay, attempt, failed_urls, sent,
                            requests>>
         [] r = "429" ->
             \E retry_after \in RetryAfterValues :
                 Sleep(c, "retry_after", retry_after)
         [] r = "429_bad_header" ->
             \* int() of a Retry-After that is no number raises ValueError
             Except(c, "value_error")
         [] r \in {"403", "404"} ->
             /\ failed_urls' = [failed_urls EXCEPT
                                  ![cscraper[c]] = @ \cup {curl[c]}]
             /\ Return(c, "None")
             /\ UNCHANGED <<wake, last_delay, attempt, sent, requests>>
         [] r = "500" ->
             /\ last_delay' = [last_delay EXCEPT ![c] = Delay("none", 0)]
             /\ NextIteration(c)
             /\ UNCHANGED wake
         [] OTHER -> Except(c, r)
    /\ UNCHANGED <<now, last_request_time, cscraper, curl>>
    /\ UNCHANGED <<ingVars, anaVars, extraVars>>

\* the sleep after a failed attempt ends
BackoffWake(c) ==
    /\ cpc[c] = "sleep"
    /\ now >= wake[c]
    /\ wake' = [wake EXCEPT ![c] = 0]
    /\ NextIteration(c)
    /\ UNCHANGED <<now, last_request_time, cscraper, curl, last_delay>>
    /\ UNCHANGED <<ingVars, anaVars, extraVars>>

\* calls inside an asyncio.sleep
Sleepers == {c \in Calls : cpc[c] \in {"rate_limit_sleep", "sleep"}}

\* Time passes while every running call sleeps, up to the earliest wake-up.
\* Code that is ready to run runs first (a call at its entry, a sleeper whose
\* time has come), and a request is answered within the second it was sent.
Tick ==
    /\ Sleepers # {}
    /\ \A c \in Calls : cpc[c] \notin {"entry", "waiting"}
    /\ \A c \in Sleepers : now < wake[c]
    /\ now' = CHOOSE w \in {wake[c] : c \in Sleepers} :
                  \A c \in Sleepers : w <= wake[c]
    /\ UNCHANGED <<last_request_time, failed_urls, cpc, cscraper, curl,
                   attempt, wake, cresult, requests, last_delay, sent>>
    /\ UNCHANGED <<ingVars, anaVars, extraVars>>

FetchInit ==
    \* last_request_time = 0 is the epoch: the first call never sleeps
    /\ now = rate_limit
    /\ last_request_time = [s \in Scrapers |-> 0]
    /\ failed_urls = [s \in Scrapers |-> {}]
    /\ cpc = [c \in Calls |-> "new"]
    /\ cscraper = [c \in Calls |-> SharedScraper]
    /\ curl = [c \in Calls |-> "none"]
    /\ attempt = [c \in Calls |-> 0]
    /\ wake = [c \in Calls |-> 0]
    /\ cresult = [c \in Calls |-> "none"]
    /\ requests = [c \in Calls |-> 0]
    /\ last_delay = [c \in Calls |-> NoDelay]
    /\ sent = <<>>

FetchUrls == {"u1.pdf", "u3.pdf"}

FetchNext ==
    \/ \E c \in Calls :
        \/ \E own \in BOOLEAN, u \in FetchUrls : StartCall(c, own, u)
        \/ RateLimitWake(c)
        \/ \E r \in Responses : Respond(c, r)
        \/ BackoffWake(c)
    \/ Tick

(***************************************************************************)
(* AgentOrchestrator.analyze_document.                                     *)
(*                                                                         *)
(* An agent's result is a dict; the model keeps the keys the orchestrator  *)
(* and the quality gate read.  Numbers are in hundredths (96 is 0.96).     *)
(*   error       the dict has an "error" key                               *)
(*   confidence  the agent's confidence value, or "absent"                 *)
(*   structure   all of the agent's required fields are present            *)
(*   citations   state of citations_analysis (legal analyst only)          *)
(***************************************************************************)
AgentNames == {"legal_analyst", "cs_expert", "quality_reviewer"}

\* workflows whose three-stage lists start with the quality reviewer
ReviewerFirst(w) ==
    CASE w = "comprehensive" -> <<"quality_reviewer", "legal_analyst", "cs_expert">>
      [] w = "cs_focused" -> <<"quality_reviewer", "cs_expert", "legal_analyst">>
      [] w = "legal_focused" -> <<"legal_analyst", "quality_reviewer">>
      [] w = "quick_review" -> <<"cs_expert", "quality_reviewer">>

analysis_workflows(w) ==
    CASE w = "comprehensive" -> <<"legal_analyst", "cs_expert", "quality_reviewer">>
      [] w = "cs_focused" -> <<"cs_expert", "legal_analyst", "quality_reviewer">>
      [] w = "legal_focused" -> <<"legal_analyst", "quality_reviewer">>
      [] w = "quick_review" -> <<"cs_expert", "quality_reviewer">>

KnownWorkflows == {"comprehensive", "cs_focused", "legal_focused", "quick_review"}

\* if workflow_type not in self.analysis_workflows: "comprehensive"
ChosenWorkflow(w) == IF w \in KnownWorkflows THEN w ELSE "comprehensive"

Payload(err, conf, structure, cites) ==
    [error |-> err, confidence |-> conf, structure |-> structure,
     citations |-> cites]

\* {"error": "..."}: what an agent returns when the model or the parse
\* fails, and what the orchestrator records when an agent raises
ErrorDict == Payload(TRUE, "absent", FALSE, "absent")

\* values of confidence_score, confidence_level and overall_quality_score
Confidences(agent) ==
    CASE agent = "legal_analyst" -> {"absent", "0.60", "0.96", "1.50"}
      [] agent = "cs_expert" -> {"absent", "high", "low"}
      [] OTHER -> {"absent", "0.65", "0.97"}

CitationStates(agent) ==
    IF agent = "legal_analyst"
    THEN {"absent", "complete", "no_cases", "no_factors", "neither"}
    ELSE {"absent"}

\* the dicts agent.analyze can return
Returns(agent) ==
    {ErrorDict} \cup
    {Payload(FALSE, c, st, ci) :
        c \in Confidences(agent),
        st \in (IF agent = "quality_reviewer" THEN {TRUE} ELSE BOOLEAN),
        ci \in CitationStates(agent)}

\* dict lookup in a dict kept as a sequence of <<key, value>> in
\* insertion order
Keys(d) == {d[i][1] : i \in 1..Len(d)}
Get(d, k) == (CHOOSE i \in 1..Len(d) : d[i][1] = k)
Lookup(d, k) == d[Get(d, k)][2]
\* an assignment that drops every other entry of the dict
PutAlone(d, k, v) == <<<<k, v>>>>

\* d[k] = v
Put(d, k, v) ==
    IF k \in Keys(d)
    THEN [d EXCEPT ![Get(d, k)] = <<k, v>>]
    ELSE Append(d, <<k, v>>)

agent_sequence == analysis_workflows(workflow_type)

\* a handler that records the error and leaves the loop
AbortOnException(agent) ==
    /\ agent_analyses' = Put(agent_analyses, agent, ErrorDict)
    /\ stage_idx' = Len(agent_sequence) + 1
    /\ UNCHANGED previous_results

\* the exception handler of the stage loop: record the error, go on
OnStageException(agent) ==
    /\ agent_analyses' = Put(agent_analyses, agent, ErrorDict)
    /\ stage_idx' = stage_idx + 1
    /\ UNCHANGED previous_results

\* "previous_analyses": previous_results -- the dict a stage's context
\* refers to is the orchestrator's own dict, not a copy of it
ContextObject(agent) == previous_results

\* POST /multi-agent-analysis: analyze_document starts
Request(w) ==
    /\ apc = "idle"
    /\ workflow_type' = ChosenWorkflow(w)
    /\ stage_idx' = 1
    /\ apc' = "loop"
    /\ UNCHANGED <<research_mode, agent_analyses, previous_results,
                   seen_context, invoked, verdict, summaries, response>>
    /\ UNCHANGED <<ingVars, fetchVars, extraVars>>

\* the "agents" list research_modes configures for a mode
research_modes(mode) ==
    CASE mode = "comprehensive" -> <<"legal_analyst", "cs_expert", "quality_reviewer">>
      [] mode = "cs_focused" -> <<"cs_expert", "legal_analyst", "quality_reviewer">>
      [] mode = "legal_precedent" -> <<"legal_analyst", "quality_reviewer">>
      [] mode = "compliance_advisory" -> <<"cs_expert", "quality_reviewer">>

\* the modes POST /premium-research lets through
valid_modes == {"comprehensive", "cs_focused", "legal_precedent",
                "compliance_advisory"}

\* POST /premium-research: process_research_request hands the mode to
\* analyze_document as workflow_type
ResearchRequest(mode) ==
    /\ apc = "idle"
    /\ research_mode' = mode
    /\ workflow_type' = ChosenWorkflow(mode)
    /\ stage_idx' = 1
    /\ apc' = "loop"
    /\ UNCHANGED <<agent_analyses, previous_results, seen_context, invoked,
                   verdict, summaries, response>>
    /\ UNCHANGED <<ingVars, fetchVars, extraVars>>

\* the loop body up to the await of agent.analyze
InvokeStage ==
    /\ apc = "loop"
    /\ stage_idx <= Len(agent_sequence)
    /\ LET agent == agent_sequence[stage_idx]
       IN /\ seen_context' = [seen_context EXCEPT ![agent] = previous_results]
          /\ invoked' = Append(invoked, agent)
    /\ apc' = "in_stage"
    /\ UNCHANGED <<research_mode, workflow_type, stage_idx, agent_analyses, previous_results,
                   verdict, summaries, response>>
    /\ UNCHANGED <<ingVars, fetchVars, extraVars>>

\* agent.analyze returns a dict
StageReturns ==
    /\ apc = "in_stage"
    /\ LET agent == agent_sequence[stage_idx]
       IN \E agent_result \in Returns(agent) :
            /\ agent_analyses' = Put(agent_analyses, agent, agent_result)
            /\ previous_results' = Put(previous_results, agent, agent_result)
    /\ stage_idx' = stage_idx + 1
    /\ apc' = "loop"
    /\ UNCHANGED <<research_mode, workflow_type, seen_context, invoked, verdict, summaries,
                   response>>
    /\ UNCHANGED <<ingVars, fetchVars, extraVars>>

\* agent.analyze raises
StageRaises ==
    /\ apc = "in_stage"
    /\ OnStageException(agent_sequence[stage_idx])
    /\ apc' = "loop"
    /\ UNCHANGED <<research_mode, workflow_type, seen_context, invoked, verdict, summaries,
                   response>>
    /\ UNCHANGED <<ingVars, fetchVars, extraVars>>

\* the loop is over; consolidation and the summary read agent_analyses
\* and analyze_document returns
AnalysisReturns ==
    /\ apc = "loop"
    /\ stage_idx > Len(agent_sequence)
    /\ apc' = IF research_mode = "none" THEN "gate" ELSE "researched"
    /\ UNCHANGED <<research_mode, workflow_type, stage_idx, agent_analyses, previous_results,
                   seen_context, invoked, verdict, summaries, response>>
    /\ UNCHANGED <<ingVars, fetchVars, extraVars>>

(***************************************************************************)
(* QualityAssuranceEngine.  Scores are kept exactly, in units of 1/6000    *)
(* (a confidence of 0.96 is 96 hundredths, 5760 units), so that the        *)
(* weights 0.3, 0.3, 0.4 and the averages over one or two signals are      *)
(* whole numbers.                                                          *)
(***************************************************************************)
quality_threshold == 95

\* hundredths to score units
Units(hundredths) == 60 * hundredths

\* confidence_map.get(level, 0.50)
confidence_map(level) ==
    CASE level = "high" -> 95
      [] level = "medium" -> 75
      [] OTHER -> 50

\* float(value), in hundredths
Float(value) ==
    CASE value = "0.60" -> 60
      [] value = "0.65" -> 65
      [] value = "0.96" -> 96
      [] value = "0.97" -> 97
      [] value = "1.50" -> 150

\* the signal calculate_overall_quality_score appends for one agent
Signal(agent, result) ==
    IF result.confidence = "absent" THEN <<>>
    ELSE IF agent = "cs_expert" THEN <<confidence_map(result.confidence)>>
    ELSE <<Float(result.confidence)>>

RECURSIVE Scores(_)
\* scores, in the order agent_analyses.items() yields the agents
Scores(analyses) ==
    IF analyses = <<>> THEN <<>>
    ELSE Signal(analyses[1][1], analyses[1][2]) \o Scores(Tail(analyses))

\* len(str(agent_result)) > 100: an error dict is short
HasContent(result) == ~result.error

\* consolidated_insights.key_legal_issues is not empty
HasLegalIssues(analyses) ==
    \E i \in 1..Len(analyses) :
        /\ analyses[i][1] = "legal_analyst"
        /\ ~analyses[i][2].error
        /\ analyses[i][2].structure

Min(a, b) == IF a < b THEN a ELSE b

\* _assess_content_completeness, on the dict analyze_document returns:
\* its three sections are present
assess_content_completeness(analyses) ==
    LET agents_with_content ==
            Cardinality({i \in 1..Len(analyses) : HasContent(analyses[i][2])})
    IN Min(2400 + 600 * agents_with_content
               + (IF HasLegalIssues(analyses) THEN 1800 ELSE 0),
           6000)

calculate_overall_quality_score(analyses) ==
    LET found == Scores(analyses)
        scores == IF found = <<>>
                  THEN <<assess_content_completeness(analyses)>>
                  ELSE [i \in 1..Len(found) |-> Units(found[i])]
    IN IF Len(scores) >= 3
       THEN (3 * scores[1] + 3 * scores[2] + 4 * scores[3]) \div 10
       ELSE IF Len(scores) = 2 THEN (scores[1] + scores[2]) \div 2
       ELSE scores[1]

\* _validate_legal_analysis_structure / _validate_cs_analysis_structure
validate_structure(result) == result.structure

\* _validate_citations
validate_citations(analyses) ==
    IF "legal_analyst" \notin Keys(analyses) THEN <<>>
    ELSE LET c == Lookup(analyses, "legal_analyst").citations
         IN (IF c \in {"no_cases", "neither"}
             THEN <<"No cases cited">> ELSE <<>>)
            \o (IF c \in {"no_factors", "neither"}
                THEN <<"No distinguishing factors">> ELSE <<>>)

\* a check that appends its issue but leaves passes_threshold alone
IgnoreCheck(passes, check_ok) == passes

\* passes_threshold after a structural check
AfterCheck(passes, check_ok) == passes /\ check_ok

validate_quality_threshold(analyses) ==
    LET quality_score == calculate_overall_quality_score(analyses)
        passes0 == quality_score >= Units(quality_threshold)
        issues0 == IF passes0 THEN <<>> ELSE <<"Overall quality score below threshold">>
        legal_ok == "legal_analyst" \in Keys(analyses) =>
                        validate_structure(Lookup(analyses, "legal_analyst"))
        issues1 == IF legal_ok THEN issues0
                   ELSE Append(issues0, "Legal analysis missing required structure")
        passes1 == AfterCheck(passes0, legal_ok)
        cs_ok == "cs_expert" \in Keys(analyses) =>
                        validate_structure(Lookup(analyses, "cs_expert"))
        issues2 == IF cs_ok THEN issues1
                   ELSE Append(issues1, "CS analysis missing required structure")
        passes2 == AfterCheck(passes1, cs_ok)
        citation_issues == validate_citations(analyses)
    IN [passes_threshold |-> AfterCheck(passes2, citation_issues = <<>>),
        quality_score |-> quality_score,
        issues |-> issues2 \o citation_issues]

NoVerdict == [passes_threshold |-> FALSE, quality_score |-> 0, issues |-> <<>>]

\* summaries.document_id: UUID, ForeignKey("documents.document_id"),
\* nullable=False: the commit fails unless the row names a document
SummaryInsertOk(document_id) ==
    \E d \in documents : d.document_id = document_id

\* flag_for_human_review(analysis, document_id, issues): its return value
\* and the table after it
flag_for_human_review(document_id, issues) ==
    IF SummaryInsertOk(document_id)
    THEN /\ summaries' = summaries \cup
                {[document_id |-> document_id, style |-> "quality_review",
                  human_status |-> "pending"]}
         /\ response' = [status |-> "quality_review_required",
                         data |-> "flagged_for_review"]
    ELSE \* except Exception: db.rollback(); return {"status": "error", ...}
         /\ summaries' = summaries
         /\ response' = [status |-> "quality_review_required",
                         data |-> "error"]

\* the endpoint calls qa_engine.validate_quality_threshold(result)
Validate ==
    /\ apc = "gate"
    /\ verdict' = validate_quality_threshold(agent_analyses)
    /\ apc' = "validated"
    /\ UNCHANGED <<research_mode, workflow_type, stage_idx, agent_analyses, previous_results,
                   seen_context, invoked, summaries, response>>
    /\ UNCHANGED <<ingVars, fetchVars, extraVars>>

\* the endpoint routes on passes_qa and answers
Route ==
    /\ apc = "validated"
    /\ IF ~verdict.passes_threshold
       THEN flag_for_human_review("multi_agent_analysis", verdict.issues)
       ELSE /\ response' = [status |-> "success", data |-> "result"]
            /\ UNCHANGED summaries
    /\ apc' = "answered"
    /\ UNCHANGED <<research_mode, workflow_type, stage_idx, agent_analyses, previous_results,
                   seen_context, invoked, verdict>>
    /\ UNCHANGED <<ingVars, fetchVars, extraVars>>

Workflows == KnownWorkflows \cup {"unknown"}

AnalyzeInit ==
    /\ apc = "idle"
    /\ research_mode = "none"
    /\ workflow_type = "comprehensive"
    /\ stage_idx = 1
    /\ agent_analyses = <<>>
    /\ previous_results = <<>>
    /\ seen_context = [a \in AgentNames |-> <<>>]
    /\ invoked = <<>>
    /\ verdict = NoVerdict
    /\ summaries = {}
    /\ response = [status |-> "none", data |-> "none"]

AnalyzeNext ==
    \/ \E w \in Workflows : Request(w)
    \/ \E mode \in valid_modes : ResearchRequest(mode)
    \/ InvokeStage
    \/ StageReturns
    \/ StageRaises
    \/ AnalysisReturns
    \/ Validate
    \/ Route


(***************************************************************************)
(* A batch of candidates through one ingestion path.                       *)
(* DocumentProcessor.process_scraped_documents takes the candidates one    *)
(* after the other; IngestionService._process_scraped_documents creates a  *)
(* coroutine per candidate and gathers them.  A candidate's pipeline may   *)
(* fail at the fetch, in the parser or at the commit.                      *)
(***************************************************************************)
Cands == 1..NCandidates
BatchUrls == Urls \cup {"u4.pdf", "u5.pdf"}
Failures == {"none", "fetch", "extract", "store"}

\* what fetch_with_retry / _download_pdf hands back: None for a failure
Downloaded(url, f) == IF f = "fetch" THEN NoContent ELSE Served(url)

\* an exception leaving the pipeline of one candidate
Raised(exc) == Result("raised", NoId, exc)

\* _process_single_document up to the store: the dict it returns, an
\* exception of the parser, or "store" when the document is to be inserted
ProcessSingle(url, f) ==
    LET bytes == Downloaded(url, f)
        h == ProcessorHash(bytes)
    IN  IF bytes = NoContent THEN Result("error", NoId, "fetch")
        ELSE IF FindByHash(h) # {} THEN Result("duplicate", ExistingId(h), "")
        ELSE IF f = "extract" THEN Raised("extract")
        ELSE IF InsufficientText(ExtractText(bytes)) THEN Result("error", NoId, "text")
        ELSE IF f = "store" THEN Result("error", NoId, "database")
        ELSE Result("store", NoId, "")

\* _process_and_store_document: what the coroutine returns (an id, None)
\* or raises; every exception is rolled back and raised again
ProcessAndStore(url, f) ==
    LET bytes == Downloaded(url, f)
        h == ParserHash(bytes)
    IN  IF bytes = NoContent THEN Raised("fetch")
        ELSE IF f = "extract" THEN Raised("extract")
        ELSE IF BlankText(ExtractText(bytes)) THEN Result("None", NoId, "")
        ELSE IF FindByHash(h) # {} THEN Result("None", NoId, "")
        ELSE IF f = "store" THEN Raised("database")
        ELSE Result("store", NoId, "")

\* db.add(document); db.commit() by the only writer of the run
Insert(url, h, text) ==
    /\ documents' = documents \cup {NewDocument(url, h, text)}
    /\ next_id' = next_id + 1

NoCounts == [success |-> 0, duplicate |-> 0, error |-> 0]

\* sum(1 for r in results if ...)
CountOf(rs, status) == Cardinality({i \in DOMAIN rs : rs[i].status = status})

\* success_count, error_count and duplicate_count of the gathered results
CountResults(rs) ==
    [success |-> CountOf(rs, "success"),
     duplicate |-> CountOf(rs, "duplicate"),
     error |-> CountOf(rs, "error")]

ProcessorRunStarts(b) ==
    /\ run_pc = "idle"
    /\ run_path' = "processor"
    /\ run_pc' = "running"
    /\ batch' = b
    /\ UNCHANGED <<bpc, bresult, results, counts>>
    /\ UNCHANGED <<ingVars, fetchVars, anaVars, hashVars, runVars,
                   lateVars>>

\* for doc in documents: await self._process_single_document(...)
ProcessorTakes(i) ==
    /\ run_path = "processor" /\ run_pc = "running"
    /\ bpc[i] = "queued"
    /\ \A j \in Cands : j < i => bpc[j] = "done"
    /\ bpc' = [bpc EXCEPT ![i] = "fetching"]
    /\ UNCHANGED <<run_path, run_pc, batch, bresult, results, counts>>
    /\ UNCHANGED <<ingVars, fetchVars, anaVars, hashVars, runVars,
                   lateVars>>

\* a loop without its except clause: the exception leaves the function
LoopLeaks(i, exc) ==
    /\ run_pc' = "raised"
    /\ UNCHANGED <<bresult, results>>

\* except Exception as e: results.append({... "status": "error" ...})
LoopExcept(i, exc) ==
    /\ run_pc' = run_pc
    /\ bresult' = [bresult EXCEPT ![i] = Result("error", NoId, exc)]
    /\ results' = Append(results, Result("error", NoId, exc))

\* the rest of _process_single_document and results.append(result)
ProcessorProcesses(i, f) ==
    /\ run_path = "processor" /\ run_pc = "running"
    /\ bpc[i] = "fetching"
    /\ bpc' = [bpc EXCEPT ![i] = "done"]
    /\ LET r == ProcessSingle(batch[i], f)
           bytes == Served(batch[i])
       IN  CASE r.status = "raised" ->
                    /\ LoopExcept(i, r.error)
                    /\ UNCHANGED <<documents, next_id>>
             [] r.status = "store" ->
                    /\ Insert(batch[i], ProcessorHash(bytes), ExtractText(bytes))
                    /\ bresult' = [bresult EXCEPT ![i] =
                                       Result("success", DocumentId(next_id), "")]
                    /\ results' = Append(results, Result("success", DocumentId(next_id), ""))
                    /\ run_pc' = run_pc
             [] OTHER ->
                    /\ bresult' = [bresult EXCEPT ![i] = r]
                    /\ results' = Append(results, r)
                    /\ run_pc' = run_pc
                    /\ UNCHANGED <<documents, next_id>>
    /\ UNCHANGED <<run_path, batch, counts>>
    /\ UNCHANGED <<tpc, tkind, turl, tcontent, thash, tresult, tbefore, tconflict, tlookup>>
    /\ UNCHANGED <<fetchVars, anaVars, hashVars, runVars,
                   lateVars>>

\* return results
ProcessorReturns ==
    /\ run_path = "processor" /\ run_pc = "running"
    /\ \A i \in Cands : bpc[i] = "done"
    /\ run_pc' = "completed"
    /\ UNCHANGED <<run_path, batch, bpc, bresult, results, counts>>
    /\ UNCHANGED <<ingVars, fetchVars, anaVars, hashVars, runVars,
                   lateVars>>

\* tasks = [...]; asyncio.gather(*tasks, ...): every coroutine runs to its
\* first await, the fetch
ServiceRunStarts(b) ==
    /\ run_pc = "idle"
    /\ run_path' = "service"
    /\ run_pc' = "running"
    /\ batch' = b
    /\ bpc' = [i \in Cands |-> "fetching"]
    /\ UNCHANGED <<bresult, results, counts>>
    /\ UNCHANGED <<ingVars, fetchVars, anaVars, hashVars, runVars,
                   lateVars>>

\* return_exceptions=True: the exception is the coroutine's result
GatherKeeps(i, exc) ==
    /\ run_pc' = run_pc
    /\ bresult' = [bresult EXCEPT ![i] = ServiceOutcome(exc, NoId)]

\* the coroutine of candidate i from the answer of its fetch to its end
ServiceProcesses(i, f) ==
    /\ run_path = "service" /\ run_pc = "running"
    /\ bpc[i] = "fetching"
    /\ bpc' = [bpc EXCEPT ![i] = "done"]
    /\ LET r == ProcessAndStore(batch[i], f)
           bytes == Served(batch[i])
       IN  CASE r.status = "raised" ->
                    /\ GatherKeeps(i, r.error)
                    /\ UNCHANGED <<documents, next_id>>
             [] r.status = "store" ->
                    /\ Insert(batch[i], ParserHash(bytes), ExtractText(bytes))
                    /\ bresult' = [bresult EXCEPT ![i] =
                                       ServiceOutcome("id", DocumentId(next_id))]
                    /\ run_pc' = run_pc
             [] OTHER ->
                    /\ bresult' = [bresult EXCEPT ![i] = ServiceOutcome("None", NoId)]
                    /\ run_pc' = run_pc
                    /\ UNCHANGED <<documents, next_id>>
    /\ UNCHANGED <<run_path, batch, results, counts>>
    /\ UNCHANGED <<tpc, tkind, turl, tcontent, thash, tresult, tbefore, tconflict, tlookup>>
    /\ UNCHANGED <<fetchVars, anaVars, hashVars, runVars,
                   lateVars>>

\* results = await asyncio.gather(...); the three counts; logger.info
ServiceReturns ==
    /\ run_path = "service" /\ run_pc = "running"
    /\ \A i \in Cands : bpc[i] = "done"
    /\ results' = [i \in Cands |-> bresult[i]]
    /\ counts' = CountResults([i \in Cands |-> bresult[i]])
    /\ run_pc' = "completed"
    /\ UNCHANGED <<run_path, batch, bpc, bresult>>
    /\ UNCHANGED <<ingVars, fetchVars, anaVars, hashVars, runVars,
                   lateVars>>

BatchInit ==
    /\ run_path = "none"
    /\ run_pc = "idle"
    /\ batch = [i \in Cands |-> "none"]
    /\ bpc = [i \in Cands |-> "queued"]
    /\ bresult = [i \in Cands |-> NoResult]
    /\ results = <<>>
    /\ counts = NoCounts

BatchNext ==
    \/ \E b \in [Cands -> BatchUrls] : ProcessorRunStarts(b)
    \/ \E i \in Cands : ProcessorTakes(i)
    \/ \E i \in Cands, f \in Failures : ProcessorProcesses(i, f)
    \/ ProcessorReturns
    \/ \E b \in [Cands -> BatchUrls] : ServiceRunStarts(b)
    \/ \E i \in Cands, f \in Failures : ServiceProcesses(i, f)
    \/ ServiceReturns


(***************************************************************************)
(* The content hash as a function of a document's text.  A text is a       *)
(* sequence of characters: a letter, a space, the two line-ending          *)
(* characters and one letter outside ASCII.                                *)
(***************************************************************************)
Chars == {"a", "SP", "LF", "CR", "e-acute"}
Texts == UNION {[1..n -> Chars] : n \in 0..TextLen}
\* the characters str.strip() removes
Whitespace == {"SP", "LF", "CR"}

RECURSIVE LStrip(_)
LStrip(s) == IF s # <<>> /\ Head(s) \in Whitespace THEN LStrip(Tail(s)) ELSE s

RECURSIVE RStrip(_)
RStrip(s) ==
    IF s # <<>> /\ s[Len(s)] \in Whitespace THEN RStrip(SubSeq(s, 1, Len(s) - 1)) ELSE s

\* line.strip()
Strip(s) == RStrip(LStrip(s))

\* text.split('\n'): the pieces between line feeds
RECURSIVE Split(_)
Split(s) ==
    IF \E i \in 1..Len(s) : s[i] = "LF"
    THEN LET i == CHOOSE k \in 1..Len(s) : s[k] = "LF" /\ \A j \in 1..(k - 1) : s[j] # "LF"
         IN  <<SubSeq(s, 1, i - 1)>> \o Split(SubSeq(s, i + 1, Len(s)))
    ELSE <<s>>

\* '\n'.join(lines)
RECURSIVE Join(_)
Join(lines) ==
    IF lines = <<>> THEN <<>>
    ELSE IF Len(lines) = 1 THEN lines[1]
    ELSE lines[1] \o <<"LF">> \o Join(Tail(lines))

\* DocumentParser._normalize_text:
\* lines = [line.strip() for line in text.split('\n') if line.strip()]
normalize_text(text) ==
    LET pieces == Split(text)
        lines == SelectSeq([i \in 1..Len(pieces) |-> Strip(pieces[i])], LAMBDA l : l # <<>>)
    IN  Join(lines)

\* the bytes of one character in an encoding
CharBytes(c, enc) ==
    CASE c = "a" -> <<97>>
      [] c = "SP" -> <<32>>
      [] c = "LF" -> <<10>>
      [] c = "CR" -> <<13>>
      [] OTHER -> IF enc = "utf-8" THEN <<195, 169>> ELSE <<233>>

\* the bytes an origin serves for a text document in an encoding
RECURSIVE Encode(_, _)
Encode(text, enc) ==
    IF text = <<>> THEN <<>> ELSE CharBytes(Head(text), enc) \o Encode(Tail(text), enc)

\* content_bytes.decode('utf-8', errors='ignore'): bytes that are not valid
\* UTF-8 are dropped
RECURSIVE Decode(_)
Decode(bytes) ==
    IF bytes = <<>> THEN <<>>
    ELSE CASE bytes[1] = 97 -> <<"a">> \o Decode(Tail(bytes))
           [] bytes[1] = 32 -> <<"SP">> \o Decode(Tail(bytes))
           [] bytes[1] = 10 -> <<"LF">> \o Decode(Tail(bytes))
           [] bytes[1] = 13 -> <<"CR">> \o Decode(Tail(bytes))
           [] bytes[1] = 195 /\ Len(bytes) > 1 /\ bytes[2] = 169 ->
                  <<"e-acute">> \o Decode(SubSeq(bytes, 3, Len(bytes)))
           [] OTHER -> Decode(Tail(bytes))

\* a PDF file holding a text: files produced differently differ in bytes
PdfBytes(text, enc) == <<"%PDF", enc, text>>

\* pdfminer's extract_text(io.BytesIO(pdf_content))
extract_text(pdf) == pdf[3]

\* the content hash each path computes for a document
ContentHash(path, text, enc) ==
    CASE path = "processor" -> ProcessorHash(PdfBytes(text, enc))
      [] path = "parser" -> Sha256(normalize_text(extract_text(PdfBytes(text, enc))))
      [] OTHER -> Sha256(normalize_text(Decode(Encode(text, enc))))

ComputeHashes(path) ==
    /\ hpath = "none"
    /\ hpath' = path
    /\ h1' = ContentHash(path, t1, e1)
    /\ h2' = ContentHash(path, t2, e2)
    /\ UNCHANGED <<t1, t2, e1, e2>>
    /\ UNCHANGED <<ingVars, fetchVars, anaVars, batchVars, runVars,
                   lateVars>>

\* two documents, each a text in Texts served in utf-8 or in latin-1
HashInit ==
    /\ t1 \in Texts /\ t2 \in Texts
    /\ e1 \in {"utf-8", "latin-1"} /\ e2 \in {"utf-8", "latin-1"}
    /\ hpath = "none" /\ h1 = NoHash /\ h2 = NoHash

HashNext == \E path \in {"processor", "parser", "text"} : ComputeHashes(path)


(***************************************************************************)
(* The ingestion script: main() initialises the store and runs the phases  *)
(* of ingestors_to_run one after the other, each inside run_ingestor.  A   *)
(* phase ends by returning (whatever happened to its documents) or by an   *)
(* exception of the ingestor's constructor or of its scrape().             *)
(***************************************************************************)
ingestors_to_run ==
    <<"Companies Act 2013", "NCLT/NCLAT Orders", "Supreme Court Judgments",
      "Constitution of India">>

PhaseEnds == {"finished", "constructor raised", "scrape raised"}

\* try: init_db() ... except Exception: logger.critical(...); return
InitDb(ok) ==
    /\ main_pc = "start"
    /\ main_pc' = IF ok THEN "phases" ELSE "halted"
    /\ UNCHANGED <<phase_idx, phase_log>>
    /\ UNCHANGED <<ingVars, fetchVars, anaVars, batchVars, hashVars,
                   lateVars>>

\* a wrapper without its except clause: the exception leaves main()
PhaseLeaks(name, end) ==
    /\ main_pc' = "raised"
    /\ UNCHANGED phase_log

\* except Exception as e: logger.error(... CRITICAL FAILURE ...)
PhaseExcept(name, end) ==
    /\ main_pc' = main_pc
    /\ phase_log' = Append(phase_log, [name |-> name, end |-> end])

\* await run_ingestor(ingestor_class, document_processor, name)
RunIngestor(end) ==
    /\ main_pc = "phases"
    /\ phase_idx <= Len(ingestors_to_run)
    /\ phase_idx' = phase_idx + 1
    /\ IF end = "finished"
       THEN /\ phase_log' = Append(phase_log,
                                   [name |-> ingestors_to_run[phase_idx], end |-> end])
            /\ main_pc' = main_pc
       ELSE PhaseExcept(ingestors_to_run[phase_idx], end)
    /\ UNCHANGED <<ingVars, fetchVars, anaVars, batchVars, hashVars,
                   lateVars>>

\* the for loop is over: "All Data Ingestion Phases Completed"
MainReturns ==
    /\ main_pc = "phases"
    /\ phase_idx > Len(ingestors_to_run)
    /\ main_pc' = "completed"
    /\ UNCHANGED <<phase_idx, phase_log>>
    /\ UNCHANGED <<ingVars, fetchVars, anaVars, batchVars, hashVars,
                   lateVars>>

RunInit ==
    /\ main_pc = "start"
    /\ phase_idx = 1
    /\ phase_log = <<>>

RunNext ==
    \/ \E ok \in BOOLEAN : InitDb(ok)
    \/ \E end \in PhaseEnds : RunIngestor(end)
    \/ MainReturns

(***************************************************************************)
(* Specifications.                                                         *)
(***************************************************************************)
\* a store that already holds one document, for the analysis endpoint
StoredBefore ==
    {[document_id |-> DocumentId(1), content_hash |-> Sha256("textA"), url |-> "u1.pdf",
      raw_text |-> "textA"]}

\* no consolidation and no interrupted run under way
LateInit ==
    /\ cons_pc = "idle" /\ stage_insights = <<>>
    /\ consolidated = [key_legal_issues |-> <<>>,
                       compliance_requirements |-> <<>>]
    /\ python = "none" /\ sigint = FALSE /\ must_cancel = FALSE
    /\ ppc = "finished" /\ pdoc = 1 /\ pattempt = 0

ExtraInit ==
    /\ BatchInit
    /\ RunInit
    /\ LateInit
    /\ t1 = <<>> /\ t2 = <<>> /\ e1 = "utf-8" /\ e2 = "utf-8"
    /\ hpath = "none" /\ h1 = NoHash /\ h2 = NoHash

Init == IngestInit /\ FetchInit /\ AnalyzeInit /\ ExtraInit

IngestSpec == Init /\ [][IngestNext]_vars

FetchSpec == Init /\ [][FetchNext]_vars

AnalyzeSpecInit ==
    /\ FetchInit /\ AnalyzeInit /\ ExtraInit
    /\ documents = StoredBefore /\ next_id = 2
    /\ tpc = [t \in Tasks |-> "new"]
    /\ tkind = [t \in Tasks |-> "none"]
    /\ turl = [t \in Tasks |-> "none"]
    /\ tcontent = [t \in Tasks |-> NoContent]
    /\ thash = [t \in Tasks |-> NoHash]
    /\ tresult = [t \in Tasks |-> NoResult]
    /\ tbefore = [t \in Tasks |-> {}]
    /\ tconflict = [t \in Tasks |-> FALSE]
    /\ tlookup = [t \in Tasks |-> "none"]

AnalyzeSpec == AnalyzeSpecInit /\ [][AnalyzeNext]_vars

BatchSpec == Init /\ [][BatchNext]_vars

HashSpecInit ==
    /\ IngestInit /\ FetchInit /\ AnalyzeInit /\ BatchInit /\ RunInit
    /\ HashInit /\ LateInit

HashSpec == HashSpecInit /\ [][HashNext]_vars

\* asyncio.run(main()) drives the one coroutine of the script until it
\* returns: a step that can be taken is taken
RunSpec == Init /\ [][RunNext]_vars /\ WF_vars(RunNext)

(***************************************************************************)
(* Properties of ingestion (IngestSpec).                                   *)
(***************************************************************************)
\* task j was started after task i had finished, for the same url
After(i, j) == i \in tbefore[j] /\ turl[i] = turl[j]

\* C1: when the same document is ingested twice, one ingestion after the
\* other, exactly one document is stored and the second ingestion's outcome
\* is "duplicate" with the id of the document the first one stored.
C1_SecondIsDuplicateOfFirst ==
    \A i, j \in Tasks :
        (/\ After(i, j)
         /\ tresult[i].status = "success"
         /\ tpc[j] = "done" /\ tcontent[j] # NoContent)
        => /\ tresult[j] = Result("duplicate", tresult[i].document_id, "")
           /\ Cardinality({d \in documents :
                               d.raw_text = ExtractText(tcontent[i])}) = 1

\* C2: no two stored documents share a content hash, whatever the
\* interleaving of the ingestion tasks.
C2_DocumentHashUnique ==
    \A d1, d2 \in documents : d1.content_hash = d2.content_hash => d1 = d2

\* two tasks computed the same hash, both looked it up before either stored;
\* one stored, the other's commit was rejected by the index
C2_RaceReachedTheIndex ==
    \E t, o \in Tasks :
        /\ t # o /\ thash[t] = thash[o]
        /\ tconflict[t] /\ tpc[t] = "done"
        /\ tresult[o].status = "success"
        /\ Cardinality(documents) >= 1

\* C3: a task whose commit is rejected by the unique index (it lost the race
\* to a concurrent task with the same hash) reports "duplicate" with the
\* winner's id, never an error.
C3_ConflictIsDuplicate ==
    \A t \in Tasks :
        (tconflict[t] /\ tpc[t] = "done")
        => tresult[t] = Result("duplicate", ExistingId(thash[t]), "")

(***************************************************************************)
(* Properties of the fetcher (FetchSpec).                                  *)
(***************************************************************************)
\* the retry loop of call c ran out of attempts
Exhausted(c) ==
    cpc[c] = "done" /\ cresult[c] = "None" /\ ~LoopContinues(attempt[c])

\* call c ended on a permanent failure: a 403/404 response, or a url that
\* robots.txt disallows
PermanentlyFailed(c) ==
    /\ cpc[c] = "done" /\ cresult[c] = "None"
    /\ \/ requests[c] > 0 /\ LoopContinues(attempt[c])
       \/ ~can_fetch_url(curl[c])

SameRun(o, c) == (cscraper[o] = SharedScraper) <=> (cscraper[c] = SharedScraper)

\* C5: a call that ends on a permanent failure leaves its url in the
\* scraper's failed_urls, and a fetch of that url started afterwards in the
\* same run returns None at once, without a request.
C5_PermanentFailureShortCircuits ==
    [][\A c, o \in Calls :
         /\ (PermanentlyFailed(o))' =>
                (curl[o] \in failed_urls[cscraper[o]])'
         /\ (/\ cpc[c] = "new" /\ cpc'[c] # "new"
             /\ PermanentlyFailed(o) /\ curl'[c] = curl[o] /\ SameRun(o, c)')
            => (cpc'[c] = "done" /\ cresult'[c] = "None" /\ requests'[c] = 0)
      ]_vars

\* C6: any two consecutive requests sent to the origin start at least
\* rate_limit seconds apart.
C6_RequestsAtLeastIntervalApart ==
    Len(sent) = 2 => sent[2] - sent[1] >= rate_limit

\* C7: fetch_with_retry never raises to its caller: a call that has started
\* either can take its next step (or time can pass until it wakes), or has
\* returned content or None, after at most max_retries requests.
C7_FetchNeverRaises ==
    \A c \in Calls :
        /\ cpc[c] # "raised"
        /\ cpc[c] = "done" => cresult[c] \in {"content", "None"}
        /\ cpc[c] \notin {"new", "done"} => ENABLED FetchNext
        /\ attempt[c] <= max_retries

\* a call whose request raised something other than a timeout (a client
\* error, or the ValueError of a malformed Retry-After) and that returned
C7_ReturnedAfterExceptions ==
    \E c \in Calls :
        /\ cpc[c] = "done" /\ cresult[c] \in {"content", "None"}
        /\ last_delay[c].why = "backoff"
        /\ requests[c] >= 2

(***************************************************************************)
(* Properties of the analysis (AnalyzeSpec).                               *)
(***************************************************************************)
\* analyze_document has returned
Analysed == apc \in {"gate", "validated", "answered"}

\* the entry of agent a in agent_analyses is an error
Errored(a) == a \in Keys(agent_analyses) /\ Lookup(agent_analyses, a).error

\* C8: when a stage errors, the stages after it still run; the result holds
\* an entry for every stage, the failed stage's being an error; and a later
\* stage's context holds the output of every earlier stage that succeeded.
C8_StagesAfterAnErrorStillRun ==
    Analysed =>
        \A b \in 1..Len(agent_sequence) :
            Errored(agent_sequence[b]) =>
                /\ invoked = agent_sequence
                /\ Keys(agent_analyses) =
                      {agent_sequence[i] : i \in 1..Len(agent_sequence)}
                /\ \A a \in 1..(b - 1), c \in (b + 1)..Len(agent_sequence) :
                      ~Errored(agent_sequence[a]) =>
                          \E i \in 1..Len(seen_context[agent_sequence[c]]) :
                              seen_context[agent_sequence[c]][i] =
                                  <<agent_sequence[a],
                                    Lookup(agent_analyses, agent_sequence[a])>>

\* stages [A, B, C]; B raised; A and C returned results
C8_MiddleStageRaised ==
    /\ Analysed /\ Len(agent_sequence) = 3
    /\ Errored(agent_sequence[2])
    /\ agent_sequence[2] \notin Keys(previous_results)
    /\ ~Errored(agent_sequence[1]) /\ ~Errored(agent_sequence[3])
    /\ agent_sequence[1] \in Keys(seen_context[agent_sequence[3]])

\* every structural check of the gate passes, read from the agents' results
StructuralChecksPass ==
    /\ \A i \in 1..Len(agent_analyses) :
          agent_analyses[i][1] \in {"legal_analyst", "cs_expert"} =>
              agent_analyses[i][2].structure
    /\ \A i \in 1..Len(agent_analyses) :
          agent_analyses[i][1] = "legal_analyst" =>
              agent_analyses[i][2].citations \in {"absent", "complete"}

\* C9: the gate approves exactly when the score is at least the threshold and
\* every structural check passes; an approval has no issues, anything else
\* is flagged with at least one issue.
C9_ApprovedIffScoreAndStructure ==
    apc \in {"validated", "answered"} =>
        /\ verdict.passes_threshold <=>
              (/\ verdict.quality_score >= Units(quality_threshold)
               /\ StructuralChecksPass)
        /\ verdict.quality_score =
              calculate_overall_quality_score(agent_analyses)
        /\ verdict.passes_threshold => verdict.issues = <<>>
        /\ ~verdict.passes_threshold => verdict.issues # <<>>

\* a score at or above the threshold, flagged by a structural check alone
C9_FlaggedByStructureAlone ==
    /\ apc = "validated"
    /\ verdict.quality_score >= Units(quality_threshold)
    /\ ~StructuralChecksPass
    /\ ~verdict.passes_threshold
    /\ Len(verdict.issues) >= 1

\* review records waiting for a reviewer
Pending == {s \in summaries : s.human_status = "pending"}

\* C10: once the endpoint has answered, a flagged analysis has exactly one
\* pending review record and an approved one has none; and whenever the
\* answer is quality_review_required, a pending record is in the store.
C10_FlaggedHasPendingRecord ==
    apc = "answered" =>
        /\ verdict.passes_threshold => Pending = {}
        /\ ~verdict.passes_threshold => Cardinality(Pending) = 1
        /\ response.status = "quality_review_required" => Pending # {}

\* C15: a document enters the store only by a task that has looked up the
\* document's content hash earlier in its own steps and found it absent,
\* on each of the three ingestion paths.
C15_InsertOnlyAfterLookupFoundAbsent ==
    [][\A d \in documents' \ documents :
           \E t \in Tasks :
               /\ tpc[t] = "insert" /\ tpc'[t] = "done"
               /\ tlookup[t] = "absent"
               /\ thash[t] = d.content_hash
               /\ tresult'[t] = Result("success", d.document_id, "")]_vars

\* a task has found its hash absent and stored its document
C15_StoredAfterLookup ==
    \E t \in Tasks : tresult[t].status = "success" /\ tlookup[t] = "absent"

\* C20: after an attempt that failed transiently (timeout, 5xx status,
\* connection error) the fetcher waits 2^attempt seconds before the next
\* attempt, or the Retry-After value when the response carried one: no
\* such attempt is followed by the next one without a wait.
C20_BackoffBetweenAttempts ==
    \A c \in Calls :
        /\ last_delay[c].why \in {"no failure yet", "backoff", "retry_after"}
        /\ (cpc[c] = "sleep" /\ last_delay[c].why = "backoff") =>
               last_delay[c].secs = Pow2(attempt[c])
        /\ last_delay[c].why = "retry_after" => last_delay[c].secs \in RetryAfterValues

\* the stages invoked before the k-th invocation
InvokedBefore(k) == {invoked[j] : j \in 1..(k - 1)}

\* C18: the stages of the workflow are invoked one at a time in the listed
\* order, the context a stage sees holds entries only for stages invoked
\* before it, and the accumulated context only grows: a step adds entries
\* at its end and removes or replaces none.
C18_ContextOnlyGrowsInStageOrder ==
    /\ [](/\ Len(invoked) <= Len(agent_sequence)
          /\ invoked = SubSeq(agent_sequence, 1, Len(invoked))
          /\ apc = "in_stage" => stage_idx = Len(invoked)
          /\ apc = "loop" => stage_idx = Len(invoked) + 1
          /\ \A k \in 1..Len(invoked) :
                 Keys(seen_context[invoked[k]]) \subseteq InvokedBefore(k)
          /\ Keys(previous_results) \subseteq InvokedBefore(Len(invoked) + 1))
    /\ [][/\ Len(previous_results') >= Len(previous_results)
          /\ SubSeq(previous_results', 1, Len(previous_results)) = previous_results]_vars

\* the last stage of a workflow of three stages or more was handed the
\* results of two earlier stages
C18_LastStageSawTwoResults ==
    /\ Len(invoked) >= 3
    /\ Len(invoked) = Len(agent_sequence)
    /\ Len(seen_context[invoked[Len(invoked)]]) >= 2

\* C19: the context handed to a stage is a read-only snapshot: the object a
\* stage was given still is what the stage was given when it was invoked.
C19_ContextIsSnapshot ==
    \A k \in 1..Len(invoked) : ContextObject(invoked[k]) = seen_context[invoked[k]]

(***************************************************************************)
(* Properties of a batch run (BatchSpec).                                  *)
(***************************************************************************)
Outcomes == {"success", "duplicate", "error"}

\* the aggregate counts of a finished run: the service computes them, the
\* processor returns the list they are read from
RunCounts == IF run_path = "service" THEN counts ELSE CountResults(results)

C12_SuccessDuplicateError ==
    (/\ run_pc = "completed"
     /\ batch = <<"u1.pdf", "u2.pdf", "u4.pdf">>
     /\ bresult[1].error = "" /\ bresult[2].error = "")
    => /\ bresult[1].status = "success"
       /\ bresult[2] = Result("duplicate", bresult[1].document_id, "")
       /\ bresult[3].status = "error"
       /\ RunCounts = [success |-> 1, duplicate |-> 1, error |-> 1]

\* the concurrency a run is configured with: the value of the end-to-end
\* scenario, as neither batch function takes or reads such a setting
concurrency == 2

\* candidates whose pipeline has started and has not finished
InFlight == {i \in Cands : bpc[i] = "fetching"}

\* C13: at every moment of a run the number of candidates in flight is at
\* most the configured concurrency, whatever the size of the batch.
C13_InFlightAtMostConcurrency == Cardinality(InFlight) <= concurrency

(***************************************************************************)
(* Properties of the content hash (HashSpec).                              *)
(***************************************************************************)
\* C14: two texts that normalize to the same string get the same content
\* hash for the deduplication check, on every path and whatever bytes
\* they arrived in.
C14_SameNormalizedTextSameHash ==
    (hpath # "none" /\ normalize_text(t1) = normalize_text(t2)) => h1 = h2

\* candidates whose fetch and extraction went through and gave a text that
\* is empty or shorter than the minimum
Insufficient ==
    {i \in Cands : /\ bpc[i] = "done"
                   /\ bresult[i].error \notin {"fetch", "extract"}
                   /\ Served(batch[i]) # NoContent
                   /\ InsufficientText(ExtractText(Served(batch[i])))}

\* C16: a candidate whose extraction yields insufficient text is never
\* stored and its outcome is error: a finished run counts it among the
\* errors and neither among the duplicates nor the successes.
C16_InsufficientTextIsError ==
    /\ \A d \in documents : ~InsufficientText(d.raw_text)
    /\ \A i \in Insufficient : bresult[i].status = "error"
    /\ run_pc = "completed" => RunCounts.error >= Cardinality(Insufficient)

Scored == apc \in {"validated", "answered"}

\* the agents whose recorded result carries a signal the score reads
Usable == {a \in Keys(agent_analyses) : Signal(a, Lookup(agent_analyses, a)) # <<>>}

SignalOf(a) == Units(Signal(a, Lookup(agent_analyses, a))[1])

\* the configured weight of an agent's signal, in tenths
Weight(a) == IF a = "quality_reviewer" THEN 4 ELSE 3

RECURSIVE WeightedSum(_)
WeightedSum(agents) ==
    IF agents = {} THEN 0
    ELSE LET a == CHOOSE x \in agents : TRUE
         IN  Weight(a) * SignalOf(a) + WeightedSum(agents \ {a})

RECURSIVE WeightSum(_)
WeightSum(agents) ==
    IF agents = {} THEN 0
    ELSE LET a == CHOOSE x \in agents : TRUE
         IN  Weight(a) + WeightSum(agents \ {a})

\* C21: when the three agents all report a usable signal, the score is
\* 0.3 * legal + 0.3 * cs + 0.4 * reviewer, in whichever order the
\* workflow ran the stages.
C21_FixedWeightsWhenAllReport ==
    (Scored /\ Usable = AgentNames) =>
        10 * verdict.quality_score = WeightedSum(AgentNames)

\* the cs_focused workflow has been scored with three signals, the first
\* two of them different
C21_CsFirstAllReported ==
    /\ Scored /\ Usable = AgentNames
    /\ workflow_type = "cs_focused"
    /\ SignalOf("cs_expert") # SignalOf("legal_analyst")
    /\ SignalOf("legal_analyst") # SignalOf("quality_reviewer")

\* C22: when only some stages gave a usable signal, the score is the
\* combination of those signals with their weights 0.3, 0.3, 0.4
\* renormalised to sum to 1.
C22_RenormalisedWeights ==
    (Scored /\ Usable # {} /\ Usable # AgentNames) =>
        WeightSum(Usable) * verdict.quality_score = WeightedSum(Usable)

\* C23: when no stage gave a usable signal the score is 0.
C23_NoSignalScoresZero ==
    (Scored /\ Usable = {}) => verdict.quality_score = 0

\* C24: the score lies in [0, 1], whatever the stages reported.
C24_ScoreInUnitInterval ==
    Scored => (verdict.quality_score >= 0 /\ verdict.quality_score <= Units(100))

\* C27: the previous_analyses a stage is handed holds no entry of a stage
\* that failed, by raising or by returning an error descriptor.
C27_ContextHoldsNoFailedStage ==
    \A k \in 1..Len(invoked) :
        \A i \in 1..Len(seen_context[invoked[k]]) :
            ~seen_context[invoked[k]][i][2].error

\* C29: for every research mode the premium-research endpoint accepts, the
\* stages the orchestrator has executed when the analysis is handed back
\* are exactly the agents research_modes lists for that mode, in that order
C29_StagesFollowResearchMode ==
    apc = "researched" => invoked = research_modes(research_mode)

(***************************************************************************)
(* The failed_urls set of a scraper instance (FetchSpec).                  *)
(***************************************************************************)
\* call d starts in this step, for the url and on the scraper instance of
\* call c
StartsLike(d, c) ==
    /\ cpc[d] = "new" /\ cpc'[d] # "new"
    /\ cscraper'[d] = cscraper[c]
    /\ curl'[d] = curl[c]

\* call d came back with None at its entry: no request, no sleep, and the
\* scraper's rate-limit clock untouched
ShortCircuited(d) ==
    /\ cpc'[d] = "done" /\ cresult'[d] = "None"
    /\ requests'[d] = 0 /\ sent' = sent
    /\ wake'[d] = wake[d] /\ now' = now
    /\ last_request_time' = last_request_time

\* C28: once fetch_with_retry has run out of retries on a url, the url is in
\* the scraper's failed_urls, and every later call for that url on the same
\* scraper instance returns None at once: it issues no request and does not
\* wait for the rate limit.
C28_ExhaustedUrlIsNotRefetched ==
    [][\A c \in Calls :
          /\ Exhausted(c)' => curl'[c] \in failed_urls'[cscraper'[c]]
          /\ \A d \in Calls \ {c} :
                (Exhausted(c) /\ StartsLike(d, c)) => ShortCircuited(d)]_vars

\* call 1 ran out of retries on the shared scraper, and call 2, for the same
\* url on the same scraper, is over without a request
C28_SecondCallShortCircuited ==
    /\ Exhausted(1) /\ curl[1] = "u1.pdf"
    /\ requests[1] = max_retries
    /\ cscraper[1] = SharedScraper /\ cscraper[2] = SharedScraper
    /\ curl[2] = curl[1]
    /\ cpc[2] = "done" /\ cresult[2] = "None" /\ requests[2] = 0

(***************************************************************************)
(* The content hash across the ingestion paths (IngestSpec).               *)
(***************************************************************************)
\* C30: the same fetched PDF gets the same content hash on every ingestion
\* path, so an ingestion of a PDF that an earlier ingestion (on whatever
\* path) stored is reported as duplicate.
C30_SameHashOnEveryPath ==
    \A i, j \in Tasks :
        (/\ tcontent[i] # NoContent /\ tcontent[i] = tcontent[j]
         /\ thash[i] # NoHash /\ thash[j] # NoHash)
        => /\ thash[i] = thash[j]
           /\ (/\ i \in tbefore[j]
               /\ tresult[i].status = "success"
               /\ tpc[j] = "done")
              => tresult[j].status = "duplicate"

(***************************************************************************)
(* AgentOrchestrator._consolidate_insights.                                *)
(*                                                                         *)
(* An agent's analysis is an error dict, or carries a list legal_issues    *)
(* and a dict compliance_implications whose list values are taken in the   *)
(* dict's order (kept here as the one list they make up).  A missing key   *)
(* contributes nothing, like an empty list.                                *)
(***************************************************************************)
Items == {"a", "b"}
Lists == UNION {[1..n -> Items] : n \in 0..ListLen}

\* the stages of agent_analyses, in insertion order
ConsAgents == <<"legal_analyst", "cs_expert">>

Insights(err, issues, reqs) ==
    [error |-> err, legal_issues |-> issues, compliance_implications |-> reqs]

StageInsights ==
    {Insights(TRUE, <<>>, <<>>)} \cup
    {Insights(FALSE, issues, reqs) : issues \in Lists, reqs \in Lists}

RECURSIVE Extended(_, _)
\* for agent_name, analysis in agent_analyses.items(): skip an error dict,
\* else consolidated[...].extend(analysis[field])
Extended(field, analyses) ==
    IF analyses = <<>> THEN <<>>
    ELSE (IF analyses[1].error THEN <<>> ELSE analyses[1][field])
         \o Extended(field, Tail(analyses))

Range(seq) == {seq[i] : i \in 1..Len(seq)}

\* list(set(items)): every distinct item once; a set of str is iterated in
\* the order of the hashes, which Python draws anew for every process
ListOfSet(items) ==
    {p \in [1..Cardinality(Range(items)) -> Range(items)] :
        \A i, j \in 1..Cardinality(Range(items)) : p[i] = p[j] => i = j}

Consolidate ==
    /\ cons_pc = "start"
    /\ \E issues \in ListOfSet(Extended("legal_issues", stage_insights)),
          reqs \in ListOfSet(Extended("compliance_implications",
                                      stage_insights)) :
         consolidated' = [key_legal_issues |-> issues,
                          compliance_requirements |-> reqs]
    /\ cons_pc' = "done"
    /\ UNCHANGED stage_insights
    /\ UNCHANGED <<ingVars, fetchVars, anaVars, batchVars, hashVars, runVars,
                   cancelVars>>

ConsolidateInit ==
    /\ cons_pc = "start"
    /\ stage_insights \in [1..Len(ConsAgents) -> StageInsights]
    /\ consolidated = [key_legal_issues |-> <<>>,
                       compliance_requirements |-> <<>>]

\* the ingestion run is idle
CancelIdle ==
    /\ python = "none" /\ sigint = FALSE /\ must_cancel = FALSE
    /\ ppc = "finished" /\ pdoc = 1 /\ pattempt = 0

ConsolidateSpecInit ==
    /\ IngestInit /\ FetchInit /\ AnalyzeInit /\ BatchInit /\ RunInit
    /\ t1 = <<>> /\ t2 = <<>> /\ e1 = "utf-8" /\ e2 = "utf-8"
    /\ hpath = "none" /\ h1 = NoHash /\ h2 = NoHash
    /\ ConsolidateInit /\ CancelIdle

ConsolidateSpec == ConsolidateSpecInit /\ [][Consolidate]_vars

RECURSIVE FirstSeen(_, _)
\* the items of a list, each once, in the order of their first occurrence
FirstSeen(items, seen) ==
    IF items = <<>> THEN <<>>
    ELSE IF items[1] \in seen THEN FirstSeen(Tail(items), seen)
    ELSE <<items[1]>> \o FirstSeen(Tail(items), seen \cup {items[1]})

\* C25: consolidation keeps each distinct item of the cross-stage lists
\* (legal issues, compliance requirements) exactly once, in the order in
\* which the items were first seen across the stages.
C25_ConsolidationKeepsFirstSeenOrder ==
    cons_pc = "done" =>
        /\ consolidated.key_legal_issues =
               FirstSeen(Extended("legal_issues", stage_insights), {})
        /\ consolidated.compliance_requirements =
               FirstSeen(Extended("compliance_implications", stage_insights),
                         {})

(***************************************************************************)
(* An ingestion run of DocumentProcessor.process_scraped_documents that is *)
(* interrupted.  The code keeps no cancellation flag and no deadline; the  *)
(* one signal a run can receive is SIGINT on the process that runs         *)
(* asyncio.run(main()).  From Python 3.11 on, asyncio.run answers SIGINT   *)
(* by cancelling the main task: a task that waits in an await gets         *)
(* CancelledError there, a task that is running is only marked and gets    *)
(* it at its next suspension.  Before 3.11 the interpreter raises          *)
(* KeyboardInterrupt in whatever code is running.  Neither exception is    *)
(* an Exception, so the except Exception clauses let both through; a bare  *)
(* except catches them.                                                    *)
(*                                                                         *)
(* After the download every step of a candidate's pipeline is synchronous: *)
(* hash and lookup, text extraction, building the row (with _parse_date)   *)
(* and the commit.                                                         *)
(***************************************************************************)
Pythons == {"3.10", "3.11"}

\* positions where the coroutine is suspended in an await
Awaits == {"request", "backoff"}
\* positions inside synchronous code
SyncSteps == {"loop", "lookup", "extract", "parse_date", "commit"}

\* the exception leaves process_scraped_documents and main()
Unwind ==
    /\ ppc' = "stopped"
    /\ must_cancel' = FALSE
    /\ UNCHANGED <<pdoc, pattempt>>

\* the loop goes on to the next entry of documents
NextDocument ==
    /\ ppc' = "loop"
    /\ pdoc' = pdoc + 1
    /\ UNCHANGED <<pattempt, must_cancel>>

GoTo(step) ==
    /\ ppc' = step
    /\ UNCHANGED <<pdoc, pattempt, must_cancel>>

\* for doc in documents: _download_pdf opens a scraper and fetch_with_retry
\* issues the first request; a pending CancelledError is raised at the first
\* await on that way
TakeDocument ==
    /\ ppc = "loop"
    /\ pdoc <= NCandidates
    /\ IF must_cancel
       THEN Unwind
       ELSE /\ ppc' = "request"
            /\ pattempt' = 0
            /\ UNCHANGED <<pdoc, must_cancel>>
    /\ UNCHANGED <<python, sigint>>
    /\ UNCHANGED <<ingVars, fetchVars, anaVars, batchVars, hashVars, runVars,
                   consVars>>

\* the list is exhausted: process_scraped_documents returns
DocumentsDone ==
    /\ ppc = "loop"
    /\ pdoc > NCandidates
    /\ IF must_cancel
       THEN Unwind
       ELSE /\ ppc' = "finished"
            /\ UNCHANGED <<pdoc, pattempt, must_cancel>>
    /\ UNCHANGED <<python, sigint>>
    /\ UNCHANGED <<ingVars, fetchVars, anaVars, batchVars, hashVars, runVars,
                   consVars>>

\* the request of the current attempt ends: with the content, or with a
\* timeout or client error that the handler answers with asyncio.sleep
AttemptEnds ==
    /\ ppc = "request"
    /\ \/ GoTo("lookup")
       \/ GoTo("backoff")
    /\ UNCHANGED <<python, sigint>>
    /\ UNCHANGED <<ingVars, fetchVars, anaVars, batchVars, hashVars, runVars,
                   consVars>>

\* asyncio.sleep(2 ** attempt) is over: the next attempt, or the code after
\* the loop (None, and the candidate's result is an error)
BackoffEnds ==
    /\ ppc = "backoff"
    /\ IF LoopContinues(pattempt + 1)
       THEN /\ ppc' = "request"
            /\ pattempt' = pattempt + 1
            /\ UNCHANGED <<pdoc, must_cancel>>
       ELSE NextDocument
    /\ UNCHANGED <<python, sigint>>
    /\ UNCHANGED <<ingVars, fetchVars, anaVars, batchVars, hashVars, runVars,
                   consVars>>

\* one synchronous step of the pipeline runs and hands over to the next, or
\* the candidate's result is returned (duplicate, too little text, stored)
SyncStep ==
    /\ \/ ppc = "lookup" /\ (GoTo("extract") \/ NextDocument)
       \/ ppc = "extract" /\ (GoTo("parse_date") \/ NextDocument)
       \/ ppc = "parse_date" /\ GoTo("commit")
       \/ ppc = "commit" /\ NextDocument
    /\ UNCHANGED <<python, sigint>>
    /\ UNCHANGED <<ingVars, fetchVars, anaVars, batchVars, hashVars, runVars,
                   consVars>>

\* the bare except clauses of _parse_date
BareExcept(step) == step = "parse_date"

\* SIGINT arrives while the run is at its current position
Sigint ==
    /\ ~sigint
    /\ ppc \in Awaits \cup SyncSteps
    /\ sigint' = TRUE
    /\ IF python = "3.11"
       THEN IF ppc \in Awaits
            THEN Unwind
            ELSE /\ must_cancel' = TRUE
                 /\ UNCHANGED <<ppc, pdoc, pattempt>>
       ELSE \/ Unwind
            \/ /\ BareExcept(ppc)
               /\ UNCHANGED <<ppc, pdoc, pattempt, must_cancel>>
    /\ UNCHANGED python
    /\ UNCHANGED <<ingVars, fetchVars, anaVars, batchVars, hashVars, runVars,
                   consVars>>

CancelInit ==
    /\ python \in Pythons
    /\ sigint = FALSE /\ must_cancel = FALSE
    /\ ppc = "loop" /\ pdoc = 1 /\ pattempt = 0

CancelNext ==
    \/ TakeDocument
    \/ DocumentsDone
    \/ AttemptEnds
    \/ BackoffEnds
    \/ SyncStep
    \/ Sigint

CancelSpecInit ==
    /\ IngestInit /\ FetchInit /\ AnalyzeInit /\ BatchInit /\ RunInit
    /\ t1 = <<>> /\ t2 = <<>> /\ e1 = "utf-8" /\ e2 = "utf-8"
    /\ hpath = "none" /\ h1 = NoHash /\ h2 = NoHash
    /\ cons_pc = "idle" /\ stage_insights = <<>>
    /\ consolidated = [key_legal_issues |-> <<>>,
                       compliance_requirements |-> <<>>]
    /\ CancelInit

CancelSpec == CancelSpecInit /\ [][CancelNext]_vars

\* this step starts a request, a backoff sleep or a step of a pipeline
StartsWork ==
    /\ ppc' \in {"request", "backoff", "lookup", "extract", "parse_date",
                 "commit"}
    /\ <<ppc', pdoc', pattempt'>> # <<ppc, pdoc, pattempt>>

\* C26: once the run-level cancellation signal has been raised, no fetch in
\* its retry loop starts a further attempt or sleeps another backoff delay,
\* and no candidate's pipeline starts its next step.
C26_NothingStartsAfterCancel ==
    [][sigint => ~StartsWork]_vars

====
